---------------------------- MODULE Spec2Model ----------------------------
(***************************************************************************)
(* Model of percent_encoding_lite (src/src/lib.rs): the Bitmask character  *)
(* set, encode and decode.                                                 *)
(*                                                                         *)
(* Bytes are the integers 0..255, byte strings are sequences of bytes.     *)
(* A u32 word is represented by the set of the positions (0..31) of its    *)
(* one bits, so that &, |, ! and << are intersection, union, complement    *)
(* and the singleton; a Bitmask is the sequence of its three words.        *)
(***************************************************************************)
EXTENDS Integers, Sequences, FiniteSets

VARIABLES
    mask,      \* the Bitmask value in use
    prev,      \* the Bitmask value the last set operation was called on
    op,        \* the last set operation: "init", "add", "remove", "add_all", "remove_all"
    arg,       \* the bytes given to the last set operation
    src,       \* encode's input
    text,      \* the text: encode's output, decode's input
    slice,     \* decode: the bytes not yet consumed, at the head of the loop
    out,       \* decode: the output vector
    pc,        \* "idle", "text", "decoding", "done", "panic"
    fellBack   \* decode: whether a malformed-escape branch (line 106 or 109) ran

vars == <<mask, prev, op, arg, src, text, slice, out, pc, fellBack>>

---------------------------------------------------------------------------
(* Bounds and input alphabets *)

MaxLen == 3
MaxText == 4
MaxChars == 2

Byte == 0..255

SeqsUpTo(S, n) == UNION {[1..k -> S] : k \in 0..n}

---------------------------------------------------------------------------
(* u32 words *)

Bits == 0..31

\* 1_u32 << k, for k < 32
Shl1(k) == {k}

BitAnd(a, b) == a \cap b

BitOr(a, b) == a \cup b

BitNot(a) == Bits \ a

---------------------------------------------------------------------------
(* Bitmask *)

\* (ch as usize - 32) / 32, as an index of a 1-based sequence
WordIndex(ch) == ((ch - 32) \div 32) + 1

contains_clamped(m, ch) ==
    LET w == IF ch < 32 THEN 1 ELSE IF ch > 127 THEN 3 ELSE WordIndex(ch)
    IN  BitAnd(m[w], Shl1(ch % 32)) # {}

contains(m, ch) ==
    IF ch < 32 \/ ch > 127
    THEN FALSE
    ELSE BitAnd(m[WordIndex(ch)], Shl1(ch % 32)) # {}

add_exclusive(m, ch) ==
    IF ch > 32 /\ ch <= 127
    THEN [m EXCEPT ![WordIndex(ch)] = BitOr(@, Shl1(ch % 32))]
    ELSE m

add(m, ch) ==
    IF ch >= 32 /\ ch <= 127
    THEN [m EXCEPT ![WordIndex(ch)] = BitOr(@, Shl1(ch % 32))]
    ELSE m

RECURSIVE add_all_skiplast(_, _)
add_all_skiplast(m, chars) ==
    IF Len(chars) <= 1
    THEN m
    ELSE add_all_skiplast(add(m, Head(chars)), Tail(chars))

RECURSIVE add_all(_, _)
add_all(m, chars) ==
    IF chars = <<>>
    THEN m
    ELSE add_all(add(m, Head(chars)), Tail(chars))

remove_unnegated(m, ch) ==
    IF ch >= 32 /\ ch <= 127
    THEN [m EXCEPT ![WordIndex(ch)] = BitAnd(@, Shl1(ch % 32))]
    ELSE m

remove(m, ch) ==
    IF ch >= 32 /\ ch <= 127
    THEN [m EXCEPT ![WordIndex(ch)] = BitAnd(@, BitNot(Shl1(ch % 32)))]
    ELSE m

RECURSIVE remove_all(_, _)
remove_all(m, chars) ==
    IF chars = <<>>
    THEN m
    ELSE remove_all(remove(m, Head(chars)), Tail(chars))

\* b"ABCDEFGHIJKLMNOPQRSTUVWXYZ", b"abcdefghijklmnopqrstuvwxyz", b"0123456789"
UpperLetters == [i \in 1..26 |-> 64 + i]
LowerLetters == [i \in 1..26 |-> 96 + i]
Digits == [i \in 1..10 |-> 47 + i]

EMPTY == <<{}, {}, {}>>

\* the method chain of URI_COMPONENT, one call after the other
WithUpper == add_all(EMPTY, UpperLetters)
WithLetters == add_all(WithUpper, LowerLetters)
WithDigits == add_all(WithLetters, Digits)

URI_COMPONENT ==
    add_all(WithDigits, <<45, 95, 46, 33, 126, 42, 39, 40, 41>>)  \* b"-_.!~*'()"

URI == add_all(URI_COMPONENT,
               <<59, 47, 63, 58, 64, 38, 61, 43, 36, 44, 35>>)  \* b";/?:@&=+$,#"

RFC3986 == remove_all(add_all(URI, <<91, 93>>),                 \* b"[]"
                      <<33, 39, 40, 41, 42>>)                   \* b"!'()*"

PATH == remove(URI_COMPONENT, 47)                               \* b'/'

---------------------------------------------------------------------------
(* encode *)

Space == 32
Plus == 43
Percent == 37

\* const HEX: &[u8] = b"0123456789ABCDEF"
HEX == <<48, 49, 50, 51, 52, 53, 54, 55, 56, 57, 65, 66, 67, 68, 69, 70>>

\* String::push(c as char) for a byte c: the UTF-8 encoding of U+0000..U+00FF
PushChar(s, c) ==
    IF c < 128
    THEN Append(s, c)
    ELSE Append(Append(s, 192 + (c \div 64)), 128 + (c % 64))

\* the body of encode's loop: what one input byte appends to `o`
EncodeByteLowFirst(o, ch, m) ==
    IF ch = Space
    THEN PushChar(o, Plus)
    ELSE IF contains(m, ch)
         THEN PushChar(o, ch)
         ELSE PushChar(PushChar(PushChar(o, Percent), HEX[(ch % 16) + 1]),
                       HEX[(ch \div 16) + 1])

EncodeByte(o, ch, m) ==
    IF ch = Space
    THEN PushChar(o, Plus)
    ELSE IF contains(m, ch)
         THEN PushChar(o, ch)
         ELSE PushChar(PushChar(PushChar(o, Percent), HEX[(ch \div 16) + 1]),
                       HEX[(ch % 16) + 1])

RECURSIVE EncodeLoop(_, _, _, _)
EncodeLoop(s, m, i, o) ==
    IF i > Len(s)
    THEN o
    ELSE EncodeLoop(s, m, i + 1, EncodeByte(o, s[i], m))

encode(s, m) == EncodeLoop(s, m, 1, <<>>)

---------------------------------------------------------------------------
(* decode *)

None == -1

\* char::from(b).to_digit(16): Some(value) for 0-9, a-f, A-F, else None
ToDigit16LowerOnly(b) ==
    IF b >= 48 /\ b <= 57 THEN b - 48
    ELSE IF b >= 97 /\ b <= 102 THEN b - 97 + 10
    ELSE None

ToDigit16(b) ==
    IF b >= 48 /\ b <= 57 THEN b - 48
    ELSE IF b >= 97 /\ b <= 102 THEN b - 97 + 10
    ELSE IF b >= 65 /\ b <= 70 THEN b - 65 + 10
    ELSE None

\* hi.zip(lo).is_some()
BothDigits(hi, lo) == ToDigit16(hi) # None /\ ToDigit16(lo) # None

\* &s[n..], defined when n <= s.len()
SliceFrom(s, n) == SubSeq(s, n + 1, Len(s))

Decoding == pc = "decoding" /\ slice # <<>>

\* slice after line 99
Rest == SliceFrom(slice, 1)

codecFrame == UNCHANGED <<mask, prev, op, arg, src, text>>

DecodePlusLiteral ==
    /\ Decoding
    /\ Head(slice) = Plus
    /\ out' = Append(out, Plus)
    /\ slice' = Rest
    /\ UNCHANGED <<pc, fellBack>>
    /\ codecFrame

DecodePlus ==
    /\ Decoding
    /\ Head(slice) = Plus
    /\ out' = Append(out, Space)
    /\ slice' = Rest
    /\ UNCHANGED <<pc, fellBack>>
    /\ codecFrame

DecodePlain ==
    /\ Decoding
    /\ Head(slice) # Plus
    /\ Head(slice) # Percent
    /\ out' = Append(out, Head(slice))
    /\ slice' = Rest
    /\ UNCHANGED <<pc, fellBack>>
    /\ codecFrame

\* line 106: fewer than two bytes follow the '%'
DecodeTruncated ==
    /\ Decoding
    /\ Head(slice) = Percent
    /\ Len(Rest) < 2
    /\ out' = Append(out, Head(slice))
    /\ fellBack' = TRUE
    /\ IF Len(Rest) < 1
       THEN pc' = "panic" /\ slice' = Rest      \* &slice[1..] of an empty slice
       ELSE pc' = pc /\ slice' = SliceFrom(Rest, 1)
    /\ codecFrame

\* lines 107-109: two bytes follow, not both hexadecimal digits
DecodeNonHex ==
    /\ Decoding
    /\ Head(slice) = Percent
    /\ Len(Rest) >= 2
    /\ ~BothDigits(Rest[1], Rest[2])
    /\ out' = Append(out, Head(slice))
    /\ fellBack' = TRUE
    /\ slice' = SliceFrom(Rest, 1)
    /\ UNCHANGED pc
    /\ codecFrame

DecodeTripletLowFirst ==
    /\ Decoding
    /\ Head(slice) = Percent
    /\ Len(Rest) >= 2
    /\ BothDigits(Rest[1], Rest[2])
    /\ out' = Append(out, (ToDigit16(Rest[2]) * 16 + ToDigit16(Rest[1])) % 256)
    /\ slice' = SliceFrom(Rest, 2)
    /\ UNCHANGED <<pc, fellBack>>
    /\ codecFrame

\* lines 107-112: a well-formed escape triplet
DecodeTriplet ==
    /\ Decoding
    /\ Head(slice) = Percent
    /\ Len(Rest) >= 2
    /\ BothDigits(Rest[1], Rest[2])
    /\ out' = Append(out, (ToDigit16(Rest[1]) * 16 + ToDigit16(Rest[2])) % 256)
    /\ slice' = SliceFrom(Rest, 2)
    /\ UNCHANGED <<pc, fellBack>>
    /\ codecFrame

\* lines 98 and 115: the loop ends and `out` is returned
DecodeReturn ==
    /\ pc = "decoding"
    /\ slice = <<>>
    /\ pc' = "done"
    /\ UNCHANGED <<slice, out, fellBack>>
    /\ codecFrame

\* lines 96-97: decode is called on the text
DecodeCall ==
    /\ pc = "text"
    /\ slice' = text
    /\ out' = <<>>
    /\ fellBack' = FALSE
    /\ pc' = "decoding"
    /\ codecFrame

DecodeStep ==
    \/ DecodeCall
    \/ DecodePlus
    \/ DecodePlain
    \/ DecodeTruncated
    \/ DecodeNonHex
    \/ DecodeTriplet
    \/ DecodeReturn

\* encode is called on v with the mask in use
Encode(v) ==
    /\ pc = "idle"
    /\ src' = v
    /\ text' = encode(v, mask)
    /\ pc' = "text"
    /\ UNCHANGED <<mask, prev, op, arg, slice, out, fellBack>>

---------------------------------------------------------------------------
(* set operations as actions *)

setFrame == UNCHANGED <<src, text, slice, out, pc, fellBack>>

Add(b) ==
    /\ prev' = mask
    /\ op' = "add"
    /\ arg' = <<b>>
    /\ mask' = add(mask, b)
    /\ setFrame

Remove(b) ==
    /\ prev' = mask
    /\ op' = "remove"
    /\ arg' = <<b>>
    /\ mask' = remove(mask, b)
    /\ setFrame

AddAll(cs) ==
    /\ prev' = mask
    /\ op' = "add_all"
    /\ arg' = cs
    /\ mask' = add_all(mask, cs)
    /\ setFrame

RemoveAll(cs) ==
    /\ prev' = mask
    /\ op' = "remove_all"
    /\ arg' = cs
    /\ mask' = remove_all(mask, cs)
    /\ setFrame

---------------------------------------------------------------------------
(* Specifications *)

\* Bitmask([u32::MAX; 3]): every printable code point 32..127
FULL == <<Bits, Bits, Bits>>

Presets == {EMPTY, URI_COMPONENT, URI, RFC3986, PATH}

\* custom sets built at run time: URI with '%', a set holding the space, all
CustomSets == {add(URI, Percent), add_all(EMPTY, <<Space, 47>>), FULL}

\* bytes the set operations are called with: both sides of 32 and of 127, and
\* 37, 69, 101, which share bit 5 of the words 0, 1 and 2
OpBytes == {31, 32, 37, 69, 101, 127, 128}

\* bytes of the lists add_all and remove_all are called with
ListBytes == {31, 69, 127}

\* input bytes of encode: LF, space, '%', '+', '/', 0xD0
SrcBytes == {10, 32, 37, 43, 47, 208}

\* "a/b", "A B,", and Cyrillic capital O in UTF-8
SrcExamples == {<<97, 47, 98>>, <<65, 32, 66, 44>>, <<208, 158>>}

\* input bytes of decode: '%', '+', '2', 'F', 'G', 'b'
TextBytes == {37, 43, 50, 70, 71, 98}

\* "100%", "100%2", "100%GG", "%54%6F%20"
TextExamples ==
    { <<49, 48, 48, 37>>,
      <<49, 48, 48, 37, 50>>,
      <<49, 48, 48, 37, 71, 71>>,
      <<37, 53, 52, 37, 54, 70, 37, 50, 48>> }

InitCommon ==
    /\ prev = mask
    /\ op = "init"
    /\ arg = <<>>
    /\ src = <<>>
    /\ slice = <<>>
    /\ out = <<>>
    /\ fellBack = FALSE

\* encode, then decode of its output
Init ==
    /\ mask \in Presets \cup CustomSets
    /\ text = <<>>
    /\ pc = "idle"
    /\ InitCommon

Next ==
    \/ \E v \in SeqsUpTo(SrcBytes, MaxLen) \cup SrcExamples : Encode(v)
    \/ DecodeStep

Spec == Init /\ [][Next]_vars

\* decode of an arbitrary text
InitDec ==
    /\ mask = EMPTY
    /\ text \in SeqsUpTo(TextBytes, MaxText) \cup TextExamples
    /\ pc = "text"
    /\ InitCommon

NextDec == DecodeStep

SpecDec == InitDec /\ [][NextDec]_vars

\* the set operations
InitSet ==
    /\ mask \in Presets \cup {FULL}
    /\ text = <<>>
    /\ pc = "idle"
    /\ InitCommon

NextSet ==
    \/ \E b \in OpBytes : Add(b)
    \/ \E b \in OpBytes : Remove(b)
    \/ \E cs \in SeqsUpTo(ListBytes, MaxChars) : AddAll(cs)
    \/ \E cs \in SeqsUpTo(ListBytes, MaxChars) : RemoveAll(cs)

SpecSet == InitSet /\ [][NextSet]_vars

---------------------------------------------------------------------------
(* Properties of the character set, under SpecSet *)

InRange == 32..127

OutOfRange == Byte \ InRange

\* C7: for every byte b in [32,127] and every set, contains(add(s, b), b) is
\* true and contains(remove(s, b), b) is false: of the set in use, and of the
\* result of the add or remove that produced it.
C7_AddRemoveMembership ==
    /\ \A b \in InRange :
          /\ contains(add(mask, b), b)
          /\ ~contains(remove(mask, b), b)
    /\ (op = "add" /\ arg[1] \in InRange) => contains(mask, arg[1])
    /\ (op = "remove" /\ arg[1] \in InRange) => ~contains(mask, arg[1])

C7_Witness ==
    /\ op = "remove"
    /\ arg[1] \in InRange
    /\ contains(prev, arg[1])
    /\ ~contains(mask, arg[1])

\* C8: for every byte b outside [32,127] and every set, contains(s, b) is
\* false and add(s, b) and remove(s, b) equal s; the word index of a byte
\* that passes the range check is one of the three words.
C8_OutOfRangeIgnored ==
    /\ \A b \in OutOfRange :
          /\ ~contains(mask, b)
          /\ add(mask, b) = mask
          /\ remove(mask, b) = mask
    /\ \A b \in InRange : WordIndex(b) \in DOMAIN mask
    /\ (op \in {"add", "remove"} /\ arg[1] \in OutOfRange) => mask = prev

C8_Witness ==
    /\ op = "add"
    /\ arg[1] > 127
    /\ mask = prev
    /\ mask # EMPTY
    /\ mask # FULL

\* the 96 code points 32..127 have 96 distinct (word, bit) places
DistinctPlaces ==
    \A b \in InRange : \A c \in InRange :
        b # c => <<WordIndex(b), b % 32>> # <<WordIndex(c), c % 32>>

\* C10: add and remove change the membership of the given byte only: every
\* other byte c is a member after the operation iff it was before; on the
\* initial sets this is checked for every byte b, and the places of the 96
\* code points are distinct.
C10_OtherMembersKept ==
    /\ op \in {"add", "remove"} =>
          \A c \in Byte \ {arg[1]} : contains(mask, c) = contains(prev, c)
    /\ op = "init" =>
          \A b \in Byte : \A c \in Byte \ {b} :
              /\ contains(add(mask, b), c) = contains(mask, c)
              /\ contains(remove(mask, b), c) = contains(mask, c)
    /\ DistinctPlaces

C10_Witness ==
    /\ op = "add"
    /\ arg = <<101>>
    /\ ~contains(prev, 101)
    /\ contains(mask, 101)
    /\ contains(mask, 69)
    /\ ~contains(mask, 37)

---------------------------------------------------------------------------
(* Properties of encode and of the round trip, under Spec *)

\* the upper-case hexadecimal digit of a nibble
UpperHex(d) == IF d < 10 THEN 48 + d ELSE 55 + d

\* the piece of output the claim gives one input byte
Piece(b, m) ==
    IF b = 32 THEN <<43>>
    ELSE IF contains(m, b) THEN <<b>>
    ELSE <<37, UpperHex(b \div 16), UpperHex(b % 16)>>

RECURSIVE ConcatPieces(_, _)
ConcatPieces(s, m) ==
    IF s = <<>> THEN <<>> ELSE Piece(Head(s), m) \o ConcatPieces(Tail(s), m)

\* C4: encode's output is the in-order concatenation of one piece per input
\* byte ('+' for the space, the byte itself for another member of the set,
\* '%' and two upper-case hexadecimal digits, high nibble first, otherwise); an
\* input of non-space members only is returned unchanged.
C4_EncodePieces ==
    pc # "idle" =>
        /\ text = ConcatPieces(src, mask)
        /\ (\A i \in DOMAIN src : src[i] # 32 /\ contains(mask, src[i]))
              => text = src

\* encode("A B,", URI_COMPONENT) = "A+B%2C"
C4_Witness ==
    /\ pc = "text"
    /\ mask = URI_COMPONENT
    /\ src = <<65, 32, 66, 44>>
    /\ text = <<65, 43, 66, 37, 50, 67>>

MembersOf(m) == {b \in Byte : contains(m, b)}

AlphaNumerics == (65..90) \cup (97..122) \cup (48..57)

\* - _ . ! ~ * ' ( )
Marks == {45, 95, 46, 33, 126, 42, 39, 40, 41}

\* ; / ? : @ & = + $ , #
Reserved == {59, 47, 63, 58, 64, 38, 61, 43, 36, 44, 35}

PresetsAsListed ==
    /\ MembersOf(URI_COMPONENT) = AlphaNumerics \cup Marks
    /\ MembersOf(URI) = AlphaNumerics \cup Marks \cup Reserved
    /\ MembersOf(RFC3986) =
          ((AlphaNumerics \cup Marks \cup Reserved) \cup {91, 93})
              \ {33, 39, 40, 41, 42}
    /\ MembersOf(PATH) = (AlphaNumerics \cup Marks) \ {47}
    /\ ~contains(PATH, 47)
    /\ contains(URI_COMPONENT, 40)
    /\ contains(URI_COMPONENT, 41)

\* C6: the presets have exactly the listed members, for every byte 0..255,
\* and encode("a/b", PATH) = encode("a/b", URI_COMPONENT) = "a%2Fb" while
\* encode("a/b", URI) = "a/b".
C6_PresetMembers ==
    /\ PresetsAsListed
    /\ (pc # "idle" /\ src = <<97, 47, 98>>) =>
          /\ mask \in {PATH, URI_COMPONENT} => text = <<97, 37, 50, 70, 98>>
          /\ mask = URI => text = <<97, 47, 98>>

C6_Witness ==
    /\ pc = "text"
    /\ mask = PATH
    /\ src = <<97, 47, 98>>
    /\ text = <<97, 37, 50, 70, 98>>

\* C2, as claimed: for all byte sequences v and every set s,
\* decode(encode(v, s)) = v.
C2_RoundTripAnySet == pc = "done" => out = src

\* no '+' or '%' of v is a member of m (and so passed through unescaped)
Unambiguous(v, m) ==
    \A i \in DOMAIN v :
        /\ v[i] = 43 => ~contains(m, 43)
        /\ v[i] = 37 => ~contains(m, 37)

\* C2, amended: for every set s and every byte sequence v none of whose '+'
\* or '%' bytes is a member of s, decode(encode(v, s)) returns v.
C2_RoundTripUnambiguous ==
    (pc \in {"done", "panic"} /\ Unambiguous(src, mask)) =>
        (pc = "done" /\ out = src)

\* with a set that holds '+' and '%': " /\xD0" -> "+/%D0" -> " /\xD0"
C2_Witness ==
    /\ pc = "done"
    /\ contains(mask, 43)
    /\ contains(mask, 37)
    /\ src = <<32, 47, 208>>
    /\ text = <<43, 47, 37, 68, 48>>
    /\ out = src

\* C9: for every set that contains neither '+' nor '%' and every byte
\* sequence v, decode(encode(v, s)) does not panic, can always take its next
\* step, never takes a malformed-escape branch, and returns v.
C9_RestrictedRoundTrip ==
    (~contains(mask, 43) /\ ~contains(mask, 37)) =>
        /\ pc # "panic"
        /\ ~fellBack
        /\ pc = "decoding" => ENABLED DecodeStep
        /\ pc = "done" => out = src

\* "+% " with URI_COMPONENT -> "%2B%25+" -> "+% "
C9_Witness ==
    /\ pc = "done"
    /\ mask = URI_COMPONENT
    /\ src = <<43, 37, 32>>
    /\ text = <<37, 50, 66, 37, 50, 53, 43>>
    /\ out = src
    /\ ~fellBack

---------------------------------------------------------------------------
(* Properties of decode on arbitrary text, under SpecDec *)

HexDigits == (48..57) \cup (65..70) \cup (97..102)

\* the value of a hexadecimal digit, read case-insensitively
HexValue(b) ==
    IF b \in 48..57 THEN b - 48
    ELSE IF b \in 65..70 THEN b - 55
    ELSE b - 87

\* the '%' at the head of s is not followed by two hexadecimal digits
Malformed(s) == Len(s) < 3 \/ s[2] \notin HexDigits \/ s[3] \notin HexDigits

\* every '%' of t is followed by two hexadecimal digits
WellFormed(t) ==
    \A i \in DOMAIN t :
        t[i] = 37 =>
            /\ i + 2 <= Len(t)
            /\ t[i + 1] \in HexDigits
            /\ t[i + 2] \in HexDigits

RECURSIVE ExpectedDecode(_)
ExpectedDecode(t) ==
    IF t = <<>> THEN <<>>
    ELSE IF t[1] = 43 THEN <<32>> \o ExpectedDecode(Tail(t))
    ELSE IF t[1] = 37
         THEN <<HexValue(t[2]) * 16 + HexValue(t[3])>>
                  \o ExpectedDecode(SubSeq(t, 4, Len(t)))
    ELSE <<t[1]>> \o ExpectedDecode(Tail(t))

\* C1: decode never panics, whatever the text.
C1_DecodeNeverPanics == pc # "panic"

\* C3: at a '%' not followed by two hexadecimal digits, decode appends the
\* literal '%' and consumes the '%' only, leaving every byte after it to the
\* later iterations.
C3_FallbackAdvancesOne ==
    [][(Decoding /\ Head(slice) = 37 /\ Malformed(slice)) =>
           (out' = Append(out, 37) /\ slice' = Tail(slice))]_vars

\* C5: on text with no malformed escape, decode returns, in input order, a
\* space for each '+', the byte high*16+low for each triplet (digits read
\* case-insensitively, the three positions consumed together) and every
\* other byte unchanged; it does not panic or fall back on such text.
C5_WellFormedDecode ==
    WellFormed(text) =>
        /\ pc # "panic"
        /\ ~fellBack
        /\ pc = "done" => out = ExpectedDecode(text)

\* "+%2b" -> " +"
C5_Witness ==
    /\ pc = "done"
    /\ text = <<43, 37, 50, 98>>
    /\ out = <<32, 43>>

=============================================================================
